---- MODULE Spec2Model ----
(***************************************************************************)
(* A model of the SGTK Maya publish hooks: the camera and mesh publish     *)
(* plugins (publish_camera.py, publish_mesh.py), the loader hook           *)
(* (tk-maya-loader2.py) and the namespace manager (namespace_manager.py).  *)
(*                                                                         *)
(* Python strings are sequences of one-character strings, so that split,   *)
(* replace, substring search and the regular expressions of the source are *)
(* computed character by character.  The empty sequence stands for a       *)
(* property that has not been set.                                         *)
(***************************************************************************)
EXTENDS Integers, Sequences, FiniteSets, TLC

(***************************************************************************)
(* Literals of the source.                                                 *)
(***************************************************************************)
S_MMtrackalembic == <<"M", "M", "t", "r", "a", "c", "k", "a", "l", "e", "m", "b", "i", "c">>
S_MMtrackfbx == <<"M", "M", "t", "r", "a", "c", "k", "f", "b", "x">>
S_fxgeo == <<"f", "x", "g", "e", "o">>
S_lgtgeo == <<"l", "g", "t", "g", "e", "o">>
S_RAtrackalembic == <<"R", "A", "t", "r", "a", "c", "k", "a", "l", "e", "m", "b", "i", "c">>
S_animgeo == <<"a", "n", "i", "m", "g", "e", "o">>
S_layoutgeo == <<"l", "a", "y", "o", "u", "t", "g", "e", "o">>
S_pCube == <<"p", "C", "u", "b", "e">>
S_group == <<"g", "r", "o", "u", "p">>
S_us == <<"_">>
S_colon == <<":">>
S_uv == <<"_", "v">>
S_abc == <<".", "a", "b", "c">>
S_ma == <<".", "m", "a">>

\* publish_camera.py / publish_mesh.py: GEO_CONSTANT_ENTITIES
GEO_CONSTANT_ENTITIES ==
    << S_us \o S_MMtrackalembic \o S_us, S_us \o S_MMtrackfbx \o S_us,
       S_us \o S_fxgeo \o S_us, S_us \o S_lgtgeo \o S_us,
       S_us \o S_RAtrackalembic \o S_us, S_us \o S_animgeo \o S_us,
       S_us \o S_layoutgeo \o S_us >>

\* publish_camera.py / publish_mesh.py: namings
namings ==
    << S_MMtrackalembic \o S_us, S_MMtrackfbx \o S_us, S_fxgeo \o S_us,
       S_lgtgeo \o S_us, S_RAtrackalembic \o S_us, S_animgeo \o S_us,
       S_layoutgeo \o S_us >>

\* publish_mesh.py: maya_native_geo_names
maya_native_geo_names ==
    << <<"p", "S", "p", "h", "e", "r", "e">>,
       S_pCube,
       <<"p", "C", "y", "l", "i", "n", "d", "e", "r">>,
       <<"p", "C", "o", "n", "e">>,
       <<"p", "T", "o", "r", "u", "s">>,
       <<"p", "P", "l", "a", "n", "e">>,
       <<"p", "D", "i", "s", "c">>,
       <<"p", "P", "l", "a", "t", "o", "n", "i", "c">>,
       <<"p", "P", "y", "r", "a", "m", "i", "d">>,
       <<"p", "P", "r", "i", "s", "m">>,
       <<"p", "P", "i", "p", "e">>,
       <<"p", "H", "e", "l", "i", "x">>,
       <<"p", "G", "e", "a", "r">>,
       <<"p", "S", "o", "l", "i", "d">>,
       <<"p", "S", "u", "p", "e", "r", "S", "h", "a", "p", "e">> >>

\* publish_camera.py / publish_mesh.py: grp_name
grp_name == << S_group >>

\* tk-maya-loader2.py: GEO_CONSTANT_ENTITIES (no underscores around the tokens)
LOADER_GEO_CONSTANT_ENTITIES ==
    << S_MMtrackalembic, S_MMtrackfbx, S_fxgeo, S_lgtgeo, S_RAtrackalembic,
       S_animgeo, S_layoutgeo >>

(***************************************************************************)
(* Python's string operations, as the source uses them.                    *)
(***************************************************************************)
Digits == {"0", "1", "2", "3", "4", "5", "6", "7", "8", "9"}
Letters ==
    {"a", "b", "c", "d", "e", "f", "g", "h", "i", "j", "k", "l", "m", "n",
     "o", "p", "q", "r", "s", "t", "u", "v", "w", "x", "y", "z",
     "A", "B", "C", "D", "E", "F", "G", "H", "I", "J", "K", "L", "M", "N",
     "O", "P", "Q", "R", "S", "T", "U", "V", "W", "X", "Y", "Z"}

SetMin(S) == CHOOSE x \in S : \A y \in S : x <= y
SetMax(S) == CHOOSE x \in S : \A y \in S : x >= y

\* t occurs in s at position i
OccursAt(s, t, i) ==
    /\ i >= 1
    /\ i + Len(t) - 1 <= Len(s)
    /\ \A k \in 1..Len(t) : s[i + k - 1] = t[k]

\* s.find(t) + 1: the first position of t in s, 0 when t is not in s
Find(s, t) ==
    LET P == {i \in 1..(Len(s) - Len(t) + 1) : OccursAt(s, t, i)}
    IN  IF P = {} THEN 0 ELSE SetMin(P)

\* t in s
Contains(s, t) == Find(s, t) # 0

StartsWith(s, t) == OccursAt(s, t, 1)
EndsWith(s, t) == Len(t) <= Len(s) /\ OccursAt(s, t, Len(s) - Len(t) + 1)

\* s[i:] with a 1-based i
From(s, i) == SubSeq(s, i, Len(s))

\* s.split(sep)[0], sep not empty
SplitFirst(s, sep) ==
    IF Find(s, sep) = 0 THEN s ELSE SubSeq(s, 1, Find(s, sep) - 1)

\* s.split(sep)[-1], sep not empty: the separators are found left to right
RECURSIVE SplitLast(_, _)
SplitLast(s, sep) ==
    IF Find(s, sep) = 0 THEN s
    ELSE SplitLast(From(s, Find(s, sep) + Len(sep)), sep)

\* s.replace(old, new), old not empty
RECURSIVE Replace(_, _, _)
Replace(s, old, new) ==
    IF Find(s, old) = 0 THEN s
    ELSE SubSeq(s, 1, Find(s, old) - 1) \o new
         \o Replace(From(s, Find(s, old) + Len(old)), old, new)

\* re.sub(r'[\W_]+', '', s): only letters and digits are kept
RECURSIVE StripNonAlnum(_)
StripNonAlnum(s) ==
    IF s = <<>> THEN <<>>
    ELSE (IF Head(s) \in Letters \cup Digits THEN <<Head(s)>> ELSE <<>>)
         \o StripNonAlnum(Tail(s))

\* the number of digits of s from position i on
RECURSIVE DigitRun(_, _)
DigitRun(s, i) ==
    IF i <= Len(s) /\ s[i] \in Digits THEN 1 + DigitRun(s, i + 1) ELSE 0

\* re.search('_v\d{3}', s): the position of the first match, 0 for None
SearchV3(s) ==
    LET P == {i \in 1..Len(s) : OccursAt(s, S_uv, i) /\ DigitRun(s, i + 2) >= 3}
    IN  IF P = {} THEN 0 ELSE SetMin(P)

\* re.search('_v\d{3}', s).group(0)
GroupV3(s) == SubSeq(s, SearchV3(s), SearchV3(s) + 4)

\* re.search('_v\d+', s): the position of the first match, 0 for None
SearchVN(s) ==
    LET P == {i \in 1..Len(s) : OccursAt(s, S_uv, i) /\ DigitRun(s, i + 2) >= 1}
    IN  IF P = {} THEN 0 ELSE SetMin(P)

\* re.search('_v\d+', s).group(0): \d+ is greedy
GroupVN(s) == SubSeq(s, SearchVN(s), SearchVN(s) + 1 + DigitRun(s, SearchVN(s) + 2))

DigitValue(c) ==
    CASE c = "0" -> 0 [] c = "1" -> 1 [] c = "2" -> 2 [] c = "3" -> 3
      [] c = "4" -> 4 [] c = "5" -> 5 [] c = "6" -> 6 [] c = "7" -> 7
      [] c = "8" -> 8 [] c = "9" -> 9

DigitChar(n) == <<"0", "1", "2", "3", "4", "5", "6", "7", "8", "9">>[n + 1]

\* int(s) of a string of digits
RECURSIVE ParseInt(_)
ParseInt(s) ==
    IF s = <<>> THEN 0
    ELSE 10 * ParseInt(SubSeq(s, 1, Len(s) - 1)) + DigitValue(s[Len(s)])

\* str(n), n >= 0
RECURSIVE IntToStr(_)
IntToStr(n) ==
    IF n < 10 THEN <<DigitChar(n)>>
    ELSE IntToStr(n \div 10) \o <<DigitChar(n % 10)>>

\* '%03d' % n
Fmt3(n) ==
    LET d == IntToStr(n)
    IN  IF Len(d) >= 3 THEN d ELSE [i \in 1..(3 - Len(d)) |-> "0"] \o d

\* any(p(x) for x in seq)
AnyOf(seq, P(_)) == \E i \in 1..Len(seq) : P(seq[i])

(***************************************************************************)
(* set_version (publish_camera.py 244-293, publish_mesh.py 250-299).       *)
(***************************************************************************)
\* extracted_name = str: the type object, not a string
NoName == [isStr |-> FALSE, val |-> <<>>]

\* The loop over GEO_CONSTANT_ENTITIES from its k-th entry on: every entry
\* found in publish_name overwrites extracted_name.
RECURSIVE ExtractName(_, _, _)
ExtractName(publish_name, k, acc) ==
    IF k > Len(GEO_CONSTANT_ENTITIES) THEN acc
    ELSE LET entities == GEO_CONSTANT_ENTITIES[k]
             split_entity == Tail(entities)
             split_name_with_version == SplitLast(publish_name, entities)
             extract_name ==
                 SplitFirst(split_name_with_version, GroupV3(split_name_with_version))
         IN  IF ~Contains(publish_name, entities)
             THEN ExtractName(publish_name, k + 1, acc)
             ELSE IF SearchV3(split_name_with_version) # 0
             THEN ExtractName(publish_name, k + 1,
                      [isStr |-> TRUE, val |-> split_entity \o extract_name \o S_us])
             ELSE ExtractName(publish_name, k + 1, [isStr |-> TRUE, val |-> <<>>])

extracted_name(publish_name) == ExtractName(publish_name, 1, NoName)

\* re.search(extracted_name, code) is not None.  The patterns of the model hold
\* letters, digits and underscores only, so the search is a substring search.
\* With the type object str as the pattern re.search raises TypeError.
CodeMatches(extracted, code) == extracted.isStr /\ Contains(code, extracted.val)

\* The body of the try block for one record (277-281): the exception it ends
\* with ("" when it ends without one) and the versions it appends.
\*   re.search(str, code)            TypeError: the pattern is the type str
\*   re.search(name, code) is None   AttributeError on .group(0)
\*   re.search('', code).group(0)    '' is falsy: the if body is skipped
\*   re.search('_v\d+', code) is None   AttributeError on .group(0)
TryBody(extracted, code) ==
    IF ~extracted.isStr THEN [exc |-> "TypeError", versions |-> <<>>]
    ELSE IF ~Contains(code, extracted.val)
    THEN [exc |-> "AttributeError", versions |-> <<>>]
    ELSE IF extracted.val = <<>> THEN [exc |-> "", versions |-> <<>>]
    ELSE IF SearchVN(code) = 0 THEN [exc |-> "AttributeError", versions |-> <<>>]
    ELSE [exc |-> "", versions |-> << ParseInt(From(GroupVN(code), 3)) >>]

\* an except clause that names AttributeError only
Caught_onlyAttributeError(exc) == exc = "AttributeError"

\* "except: pass" (282): the bare except catches every exception.
Caught(exc) == TRUE

\* The versions one record appends; what the try body raises is swallowed.
VersionsOfRecord(extracted, code) == TryBody(extracted, code).versions

\* An exception leaves the loop over the records (276-282).
LoopRaises(extracted, list) ==
    \E i \in 1..Len(list) :
        LET exc == TryBody(extracted, list[i].code).exc
        IN  exc # "" /\ ~Caught(exc)

RECURSIVE CollectVersions(_, _)
CollectVersions(extracted, list) ==
    IF list = <<>> THEN <<>>
    ELSE VersionsOfRecord(extracted, Head(list).code)
         \o CollectVersions(extracted, Tail(list))

SeqRange(seq) == {seq[i] : i \in 1..Len(seq)}

\* engine.shotgun.find('PublishedFile', [['task', 'is', task]], ...)
find(records, task) == SelectSeq(records, LAMBDA r : r.task = task)

set_version(publish_name, task, records) ==
    LET get_publish_list == find(records, task)
        versions == CollectVersions(extracted_name(publish_name), get_publish_list)
    IN  IF get_publish_list # <<>>
        THEN IF versions # <<>>
             THEN (IF SetMax(SeqRange(versions)) + 1 # 0
                   THEN SetMax(SeqRange(versions)) + 1 ELSE 1)
             ELSE 1
        ELSE 1

(***************************************************************************)
(* The publish template.  It is configuration of the pipeline; the source  *)
(* gives its shape in the comments of set_version and validate:            *)
(* pub1_MMtrackalembic_boulder_v001(.abc).  Only the file name of the path *)
(* is modelled.                                                            *)
(***************************************************************************)
S_pub1 == <<"p", "u", "b", "1">>

\* publish_template.apply_fields(work_fields), then os.path.basename
apply_fields(work_fields) ==
    S_pub1 \o S_us \o work_fields.name \o S_uv \o Fmt3(work_fields.version) \o S_abc

(***************************************************************************)
(* The scene of the publish plugins: one collected node, a camera or a     *)
(* group of meshes.  A node is given by what the Maya commands of the      *)
(* plugins answer for it: listRelatives(shapes), listRelatives(shapes,     *)
(* type='mesh'), listRelatives(ad) with each descendant's parent,          *)
(* ls(assemblies), ls(dag, type='mesh'), referenceQuery(isNodeReferenced). *)
(***************************************************************************)
S_rock == <<"r", "o", "c", "k">>
S_Shape == <<"S", "h", "a", "p", "e">>
S_geo == <<"g", "e", "o">>
S_loc == <<"l", "o", "c">>
S_cam == <<"c", "a", "m">>
S_1 == <<"1">>
S_v2 == <<"v", "2">>

N_rock == S_MMtrackalembic \o S_us \o S_rock
N_rock_v2 == S_MMtrackalembic \o S_us \o S_rock \o S_us \o S_v2
N_trailing == S_fxgeo \o S_us \o <<"a">> \o S_us
N_group1 == S_group \o S_1
N_refcam == S_MMtrackalembic \o S_us \o S_rock \o S_colon \o S_cam
N_native == S_fxgeo \o S_us \o S_pCube \o S_1
N_nomesh == S_lgtgeo \o S_us \o <<"s", "e", "t">>
N_ball == S_animgeo \o S_us \o <<"b", "a", "l", "l">>

Camera(name, referenced) ==
    [kind |-> "camera", name |-> name, referenced |-> referenced,
     shapes |-> <<name \o S_Shape>>, meshShapes |-> <<>>,
     descendants |-> <<[name |-> name \o S_Shape, parent |-> name]>>,
     assembly |-> TRUE, hasMesh |-> FALSE]

MeshGroup(name, referenced, child, childIsMesh) ==
    [kind |-> "mesh", name |-> name, referenced |-> referenced,
     shapes |-> <<>>, meshShapes |-> <<>>,
     descendants |-> <<[name |-> child, parent |-> name],
                       [name |-> child \o S_Shape, parent |-> child]>>,
     assembly |-> TRUE, hasMesh |-> childIsMesh]

\* a transform that carries its mesh shape itself
MeshTransform(name) ==
    [kind |-> "mesh", name |-> name, referenced |-> FALSE,
     shapes |-> <<name \o S_Shape>>, meshShapes |-> <<name \o S_Shape>>,
     descendants |-> <<[name |-> name \o S_Shape, parent |-> name]>>,
     assembly |-> TRUE, hasMesh |-> TRUE]

Catalogue ==
    << Camera(N_rock, FALSE), Camera(N_rock_v2, FALSE), Camera(N_trailing, FALSE),
       Camera(N_group1, FALSE), Camera(N_refcam, TRUE),
       MeshGroup(N_rock, FALSE, S_geo, TRUE),
       MeshGroup(N_rock_v2, FALSE, S_geo, TRUE),
       MeshGroup(N_native, FALSE, S_pCube \o S_1, TRUE),
       MeshGroup(N_nomesh, FALSE, S_loc, FALSE),
       MeshGroup(N_refcam, TRUE, S_geo, TRUE),
       MeshTransform(N_ball) >>

(***************************************************************************)
(* Bounds of the model.                                                    *)
(***************************************************************************)
\* PublishedFile records kept in the tracking database
MaxRecords == 3
\* versions of the work file the session is saved as
MaxWorkVersion == 2
\* the task of the publisher's context, and another task of the project
TASK == "task of the context"
OTHER_TASK == "another task"

VARIABLES
    node,            \* the collected scene node: its index in Catalogue
    nodeName,        \* the name the node carries in the scene now
    abc_start_frame, \* its abc_start_frame attribute: <<>> or <<value>>
    selection,       \* cmds.ls(selection=True): a set of node names
    sessionSaved,    \* cmds.file(query=True, sn=True) is not empty
    workVersion,     \* the version field of the work file path
    playbackMin,     \* cmds.playbackOptions(q=True, min=True)
    sgRecords,       \* the PublishedFile records of the tracking database
    item,            \* the publish item and its properties
    stage,           \* where the publisher is with the item
    exportLog,       \* the AbcExport jobs that ran without error
    last             \* the last call of a plugin method and its outcome

pubVars == <<node, nodeName, abc_start_frame, selection, sessionSaved,
             workVersion, playbackMin, sgRecords, item, stage, exportLog, last>>

\* The loader hook (tk-maya-loader2.py).  It reads playbackMin too.
VARIABLES
    maya_ver,        \* cmds.about(version=True)
    generated,       \* the last generate_actions call and what it returned
    loaderScene,     \* what the loader has brought into the scene, in order
    execLast         \* the last execute_multiple_actions call and its outcome

loadVars == <<maya_ver, generated, loaderScene, execLast>>

\* The namespace manager (namespace_manager.py).
VARIABLES
    naming_convention,   \* self.__naming_convention
    apply_option,        \* self.__apply_option
    namespace_user_text, \* the text of qlineedit_input_text
    fileNamespace,       \* the namespace of each file of the scene
    nsSelection,         \* cmds.ls(sl=True) in the manager's scene
    windowOpen,          \* the manager's window is shown
    nsLast               \* the last process_naming_convention call

nsVars == <<naming_convention, apply_option, namespace_user_text, fileNamespace,
            nsSelection, windowOpen, nsLast>>

\* set_version called on its own (publish_camera.py 244-293).
VARIABLES
    svCall               \* the last call of set_version and its outcome

svVars == <<svCall>>

vars == <<pubVars, loadVars, nsVars, svVars>>

NoLast ==
    [op |-> "none", result |-> "none", msg |-> "", errors |-> {},
     dialog |-> FALSE, exportRan |-> FALSE, exportOk |-> FALSE,
     registered |-> FALSE, selBefore |-> {}, nameBefore |-> <<>>,
     propsBefore |-> <<>>, svArg |-> <<>>, inputs |-> <<>>]

\* the item the collector creates for the node: no property set yet
NewItem(name, kind) ==
    [kind |-> kind, object |-> name, task |-> TASK,
     work_template |-> FALSE, publish_template |-> FALSE,
     context_change_allowed |-> TRUE,
     path |-> <<>>, publish_path |-> <<>>, publish_name |-> <<>>,
     publish_version |-> 0, publish_type |-> ""]

\* An accept that does not ask Maya whether the AbcExport command exists.
CameraAccepted_noExportCheck(work_template, publish_template, abc_export_exists) ==
    work_template /\ publish_template

(***************************************************************************)
(* accept (publish_camera.py 198-242, publish_mesh.py 208-248).            *)
(***************************************************************************)
\* The camera plugin returns at the first failed check.
CameraAccepted(work_template, publish_template, abc_export_exists) ==
    IF ~work_template THEN FALSE
    ELSE IF ~publish_template THEN FALSE
    ELSE IF ~abc_export_exists THEN FALSE
    ELSE TRUE

\* The mesh plugin never looks for the AbcExport command.
MeshAccepted(work_template, publish_template, abc_export_exists) ==
    work_template /\ publish_template

Accept ==
    /\ stage = "collected"
    /\ \E work_template \in BOOLEAN, publish_template \in BOOLEAN,
          abc_export_exists \in BOOLEAN :
         LET accepted ==
                 IF item.kind = "camera"
                 THEN CameraAccepted(work_template, publish_template, abc_export_exists)
                 ELSE MeshAccepted(work_template, publish_template, abc_export_exists)
             \* camera: the template is stored only when the work template was
             \* there and the publish template resolved; mesh: always
             stored == IF item.kind = "camera"
                       THEN work_template /\ publish_template ELSE TRUE
         IN  /\ item' = [item EXCEPT
                           !.work_template = work_template,
                           !.publish_template =
                               IF stored THEN publish_template ELSE @,
                           !.context_change_allowed =
                               IF stored THEN FALSE ELSE @]
             /\ stage' = IF accepted THEN "accepted" ELSE "collected"
             /\ last' = [NoLast EXCEPT
                           !.op = "accept",
                           !.result = IF accepted THEN "true" ELSE "false",
                           !.inputs = <<work_template, publish_template,
                                        abc_export_exists>>]
    /\ UNCHANGED <<node, nodeName, abc_start_frame, selection, sessionSaved,
                   workVersion, playbackMin, sgRecords, exportLog>>
    /\ UNCHANGED <<loadVars, nsVars, svVars>>

(***************************************************************************)
(* The session path and the work template.  The work file is              *)
(* scene_v<version>.ma; get_fields reads the version back from the path.   *)
(***************************************************************************)
S_scene == <<"s", "c", "e", "n", "e">>

\* _session_path(): cmds.file(query=True, sn=True), empty for an unsaved session
session_path(saved, version) ==
    IF saved THEN S_scene \o S_uv \o Fmt3(version) \o S_ma ELSE <<>>

\* a validate that never finds the session unsaved
NotSaved_never(path) == FALSE

\* if not path
NotSaved(path) == path = <<>>

\* work_template.get_fields(path)
get_fields(path) ==
    [version |-> ParseInt(SplitFirst(SplitLast(path, S_uv), S_ma))]

(***************************************************************************)
(* validate (publish_camera.py 295-439, publish_mesh.py 301-479).          *)
(***************************************************************************)
UnderscoreEnds(name) == StartsWith(name, S_us) \/ EndsWith(name, S_us)

\* the descendants whose name starts or ends with an underscore
UnderscoreChildren(n) ==
    {d.name : d \in {x \in SeqRange(n.descendants) : UnderscoreEnds(x.name)}}

\* the descendants whose name starts with a Maya native geometry name
NativeChildren(n) ==
    {d.name : d \in {x \in SeqRange(n.descendants) :
                        AnyOf(maya_native_geo_names, LAMBDA g : StartsWith(x.name, g))}}

\* publish_camera.py 333-362: the violations found for the camera
CameraErrors(n, cam_name) ==
      (IF AnyOf(grp_name, LAMBDA g : StartsWith(cam_name, g))
       THEN {"native name"} ELSE {})
 \cup (IF ~AnyOf(namings, LAMBDA p : StartsWith(cam_name, p))
       THEN {"no naming prefix"} ELSE {})
 \cup (IF UnderscoreEnds(cam_name) THEN {"underscore"} ELSE {})
 \cup (IF n.shapes = <<>> /\ ~AnyOf(namings, LAMBDA p : Contains(cam_name, p))
       THEN {"no naming convention"} ELSE {})
 \cup (IF UnderscoreChildren(n) # {} THEN {"child underscore"} ELSE {})

\* publish_mesh.py 345-401: the violations found for the mesh object
MeshErrors(n, object_name) ==
      (IF AnyOf(maya_native_geo_names, LAMBDA g : Contains(object_name, g))
       THEN {"native geometry name"} ELSE {})
 \cup (IF ~AnyOf(namings, LAMBDA p : StartsWith(object_name, p))
       THEN {"no naming prefix"} ELSE {})
 \cup (IF n.meshShapes # <<>> THEN {"mesh outside a group"} ELSE {})
 \cup (IF AnyOf(grp_name, LAMBDA g : StartsWith(object_name, g))
       THEN {"native name"} ELSE {})
 \cup (IF n.shapes = <<>> /\ ~AnyOf(namings, LAMBDA p : Contains(object_name, p))
       THEN {"no naming convention"} ELSE {})
 \cup (IF AnyOf(namings, LAMBDA p : p = object_name)
       THEN {"only naming convention"} ELSE {})
 \cup (IF UnderscoreEnds(object_name) THEN {"underscore"} ELSE {})
 \cup (IF NativeChildren(n) # {} THEN {"native child"} ELSE {})
 \cup (IF UnderscoreChildren(n) # {} THEN {"child underscore"} ELSE {})

ValidationErrors(n, name) ==
    IF n.kind = "camera" THEN CameraErrors(n, name) ELSE MeshErrors(n, name)

\* what the cmds.select(..., add=True) calls of validate add to the selection
ValidationSelection(n, name) ==
    LET errs == ValidationErrors(n, name)
        own == errs \ {"child underscore", "native child"}
    IN    (IF own # {} THEN {name} ELSE {})
     \cup UnderscoreChildren(n)
     \cup (IF n.kind = "mesh" /\ NativeChildren(n) # {}
           THEN {d.parent : d \in SeqRange(n.descendants)} ELSE {})

\* the publish name validate hands to set_version: work_fields["name"] is the
\* name without its namespace and without underscores, the name itself is put
\* back by str.replace
FirstPublishName(it, path) ==
    LET name == SplitFirst(it.object, S_colon)
        display == StripNonAlnum(name)
        work_fields == [name |-> display, version |-> get_fields(path).version]
    IN  Replace(apply_fields(work_fields), display, name)

\* The properties validate leaves on the item when it reaches its end.
ValidatedItem(it, records, path) ==
    LET name == SplitFirst(it.object, S_colon)
        display == StripNonAlnum(name)
        version == set_version(FirstPublishName(it, path), it.task, records)
        work_fields == [name |-> display, version |-> version]
        publish_path == Replace(apply_fields(work_fields), display, name)
    IN  [it EXCEPT !.path = publish_path, !.publish_path = publish_path,
                   !.publish_name = publish_path,
                   !.publish_version = work_fields.version]

\* the properties of the item that validate writes
Properties(it) == <<it.path, it.publish_path, it.publish_name, it.publish_version>>

\* the base class's validate: it warns about conflicting publishes and
\* answers True
BaseValidate(it) == TRUE

Validate ==
    /\ stage \in {"accepted", "validated"}
    /\ \E missing_keys \in BOOLEAN :
         LET n == Catalogue[node]
             path == session_path(sessionSaved, workVersion)
             raise(msg) ==
                 [NoLast EXCEPT !.op = "validate", !.result = "raise",
                                !.msg = msg, !.selBefore = selection,
                                !.propsBefore = Properties(item)]
         IN  IF NotSaved(path)
             THEN /\ last' = raise("The Maya session has not been saved.")
                  /\ stage' = "accepted"
                  /\ UNCHANGED <<item, selection>>
             ELSE IF nodeName # item.object
             THEN \* the Maya commands raise for a node that is not in the scene
                  /\ last' = raise("No object matches name")
                  /\ stage' = "accepted"
                  /\ UNCHANGED <<item, selection>>
             ELSE IF n.descendants = <<>>
             THEN \* for ... in None
                  /\ last' = [raise("'NoneType' object is not iterable")
                                EXCEPT !.errors = ValidationErrors(n, item.object)]
                  /\ selection' = selection \cup ValidationSelection(n, item.object)
                  /\ stage' = "accepted"
                  /\ UNCHANGED item
             ELSE IF missing_keys
             THEN /\ last' = [raise("missing keys required for the publish template")
                                EXCEPT !.errors = ValidationErrors(n, item.object),
                                       !.dialog = ValidationErrors(n, item.object) # {}]
                  /\ selection' = selection \cup ValidationSelection(n, item.object)
                  /\ stage' = "accepted"
                  /\ UNCHANGED item
             ELSE /\ item' = ValidatedItem(item, sgRecords, path)
                  /\ selection' = selection \cup ValidationSelection(n, item.object)
                  /\ stage' = IF BaseValidate(item') THEN "validated" ELSE "accepted"
                  /\ last' = [NoLast EXCEPT
                                !.op = "validate",
                                !.result = IF BaseValidate(item') THEN "true" ELSE "false",
                                !.errors = ValidationErrors(n, item.object),
                                !.dialog = ValidationErrors(n, item.object) # {},
                                !.selBefore = selection,
                                !.propsBefore = Properties(item),
                                !.svArg = FirstPublishName(item, path)]
    /\ UNCHANGED <<node, nodeName, abc_start_frame, sessionSaved, workVersion,
                   playbackMin, sgRecords, exportLog>>
    /\ UNCHANGED <<loadVars, nsVars, svVars>>

(***************************************************************************)
(* publish (publish_camera.py 441-515, publish_mesh.py 482-562).           *)
(***************************************************************************)
\* [name for name in namings if name in node_name]
get_nameing_convention(node_name) ==
    SelectSeq(namings, LAMBDA p : Contains(node_name, p))

\* remove_naming_convension[-1]
remove_naming_convension(node_name) ==
    SplitLast(node_name, get_nameing_convention(node_name)[1])

\* the base class's publish: register_publish with the item's path, name and
\* version, in the item's context
BasePublish(it) ==
    [code |-> it.path, version_number |-> it.publish_version, task |-> it.task]

Outcome(result, name, attr, ran, ok, registered) ==
    [result |-> result, name |-> name, attr |-> attr, exportRan |-> ran,
     exportOk |-> ok, registered |-> registered]

\* the attribute after "if not attributeQuery(...): addAttr, setAttr"
WithStartAttr(attr, start_frame) == IF attr = <<>> THEN <<start_frame>> ELSE attr

\* The camera plugin's publish on a node carrying the name it was collected
\* with.  export_ok: mel.eval of the AbcExport command does not raise.
\* cmds.rename to an empty name raises.
CameraPublish(n, current_camera, attr, start_frame, export_ok) ==
    LET attr1 == WithStartAttr(attr, start_frame)
        short == remove_naming_convension(current_camera)
    IN  IF ~n.referenced
        THEN IF get_nameing_convention(current_camera) = <<>>
             THEN Outcome("raise", current_camera, attr1, FALSE, FALSE, FALSE)
             ELSE IF short = <<>>
             THEN Outcome("return", current_camera, attr1, FALSE, FALSE, FALSE)
             ELSE IF ~export_ok
             THEN Outcome("return", short, attr1, TRUE, FALSE, FALSE)
             ELSE Outcome("return", current_camera, attr1, TRUE, TRUE, TRUE)
        ELSE IF ~export_ok
             THEN Outcome("return", current_camera, attr1, TRUE, FALSE, FALSE)
             ELSE Outcome("return", current_camera, attr1, TRUE, TRUE, TRUE)

\* The mesh plugin's publish: the loop over cmds.ls(assemblies=True) exports
\* the assembly that has meshes below it and carries the object's name; the
\* registration follows the loop.
MeshPublish(n, mesh_object, scene_name, attr, start_frame, export_ok) ==
    LET attr1 == WithStartAttr(attr, start_frame)
        short == remove_naming_convension(mesh_object)
    IN  IF ~(n.assembly /\ n.hasMesh /\ mesh_object = scene_name)
        THEN Outcome("return", scene_name, attr, FALSE, FALSE, TRUE)
        ELSE IF ~n.referenced
        THEN IF get_nameing_convention(mesh_object) = <<>>
             THEN Outcome("raise", mesh_object, attr1, FALSE, FALSE, FALSE)
             ELSE IF short = <<>>
             THEN Outcome("raise", mesh_object, attr1, FALSE, FALSE, FALSE)
             ELSE IF ~export_ok
             THEN Outcome("return", short, attr1, TRUE, FALSE, FALSE)
             ELSE Outcome("return", mesh_object, attr1, TRUE, TRUE, TRUE)
        ELSE IF ~export_ok
             THEN Outcome("return", mesh_object, attr1, TRUE, FALSE, FALSE)
             ELSE Outcome("return", mesh_object, attr1, TRUE, TRUE, TRUE)

\* the name AbcExport is given as -root
ExportRoot(n, name) == IF n.referenced THEN name ELSE remove_naming_convension(name)

\* cmds.rename: a selected node stays selected under its new name
Renamed(sel, old, new) == IF old \in sel THEN (sel \ {old}) \cup {new} ELSE sel

Publish ==
    /\ stage = "validated"
    /\ Len(sgRecords) < MaxRecords
    /\ \E export_ok \in BOOLEAN :
         LET n == Catalogue[node]
             o == IF item.kind = "camera"
                  THEN IF nodeName # item.object
                       THEN Outcome("raise", nodeName, abc_start_frame,
                                    FALSE, FALSE, FALSE)
                       ELSE CameraPublish(n, item.object, abc_start_frame,
                                          playbackMin, export_ok)
                  ELSE MeshPublish(n, item.object, nodeName, abc_start_frame,
                                   playbackMin, export_ok)
         IN  /\ nodeName' = o.name
             /\ abc_start_frame' = o.attr
             /\ selection' = Renamed(selection, nodeName, o.name)
             /\ exportLog' =
                  IF o.exportOk
                  THEN Append(exportLog, [root |-> ExportRoot(n, item.object),
                                          file |-> IF item.kind = "camera"
                                                   THEN item.publish_path
                                                   ELSE item.path])
                  ELSE exportLog
             /\ item' = IF o.registered
                        THEN [item EXCEPT !.publish_type = "Alembic Cache"]
                        ELSE item
             /\ sgRecords' = IF o.registered
                             THEN Append(sgRecords, BasePublish(item'))
                             ELSE sgRecords
             /\ last' = [NoLast EXCEPT
                           !.op = "publish", !.result = o.result,
                           !.exportRan = o.exportRan, !.exportOk = o.exportOk,
                           !.registered = o.registered,
                           !.selBefore = selection, !.nameBefore = nodeName]
    /\ stage' = "published"
    /\ UNCHANGED <<node, sessionSaved, workVersion, playbackMin>>
    /\ UNCHANGED <<loadVars, nsVars, svVars>>

(***************************************************************************)
(* The publisher and the artist around the plugins.                        *)
(***************************************************************************)
\* The collector makes the item again from the node as it is named now.
Collect ==
    /\ stage \in {"accepted", "validated", "published"}
    /\ item' = NewItem(nodeName, Catalogue[node].kind)
    /\ stage' = "collected"
    /\ last' = [NoLast EXCEPT !.op = "collect"]
    /\ UNCHANGED <<node, nodeName, abc_start_frame, selection, sessionSaved,
                   workVersion, playbackMin, sgRecords, exportLog>>
    /\ UNCHANGED <<loadVars, nsVars, svVars>>

\* The artist saves the session, the first time or as the next version.
SaveSession ==
    /\ IF sessionSaved
       THEN workVersion < MaxWorkVersion /\ workVersion' = workVersion + 1
       ELSE workVersion' = workVersion
    /\ sessionSaved' = TRUE
    /\ last' = [NoLast EXCEPT !.op = "save"]
    /\ UNCHANGED <<node, nodeName, abc_start_frame, selection, playbackMin,
                   sgRecords, item, stage, exportLog>>
    /\ UNCHANGED <<loadVars, nsVars, svVars>>

\* The artist selects the node, or clears the selection.
SelectNode ==
    /\ selection' = IF selection = {} THEN {nodeName} ELSE {}
    /\ last' = [NoLast EXCEPT !.op = "select"]
    /\ UNCHANGED <<node, nodeName, abc_start_frame, sessionSaved, workVersion,
                   playbackMin, sgRecords, item, stage, exportLog>>
    /\ UNCHANGED <<loadVars, nsVars, svVars>>

PubNext == Accept \/ Validate \/ Publish \/ Collect \/ SaveSession \/ SelectNode

(***************************************************************************)
(* The loader hook (tk-maya-loader2.py).                                   *)
(***************************************************************************)
S_test_cam == <<"t", "e", "s", "t", " ", "c", "a", "m">>
S_char == <<"c", "h", "a", "r">>
S_shot010 == <<"s", "h", "o", "t", "0", "1", "0">>
S_bunny == <<"b", "u", "n", "n", "y">>
S_upperbody == <<"u", "p", "p", "e", "r", "b", "o", "d", "y">>
S_smoke == <<"s", "m", "o", "k", "e">>
S_dir == <<"/", "p", "u", "b", "l", "i", "s", "h", "/">>
S_v001 == <<"_", "v", "0", "0", "1">>
S_v002 == <<"_", "v", "0", "0", "2">>
S_v003 == <<"_", "v", "0", "0", "3">>
S_frames == <<".", "%", "0", "4", "d", ".", "e", "x", "r">>
S_Maya == <<"M", "a", "y", "a", " ">>
S_2014 == <<"2", "0", "1", "4">>
S_2018 == <<"2", "0", "1", "8">>
S_2015_5 == <<"2", "0", "1", "5", ".", "5", " ", "E", "x", "t", "e", "n", "s", "i", "o", "n", " ", "1">>
S_Preview == <<"P", "r", "e", "v", "i", "e", "w", " ", "R", "e", "l", "e", "a", "s", "e">>
S_space == <<" ">>
S_dot == <<".">>
S_pct0 == <<"%", "0">>

\* float(24*time_smap.getSampleTime(0)): frames per second of sample time
FPS == 24
\* if self._get_maya_version() >= 2015
UDIM_MIN_VERSION == 2015

\* _get_maya_version: 'Maya XXXX' and 'XXXX', extensions and decimals cut off,
\* 0 when what is left is not a number
get_maya_version(ver) ==
    LET v1 == IF StartsWith(ver, S_Maya) THEN From(ver, 6) ELSE ver
        major_version_number_str == SplitFirst(SplitFirst(v1, S_space), S_dot)
    IN  IF major_version_number_str # <<>>
           /\ \A i \in 1..Len(major_version_number_str) :
                  major_version_number_str[i] \in Digits
        THEN ParseInt(major_version_number_str)
        ELSE 0

\* generate_actions: the names of the action instances it returns, in order
generate_actions(actions, ui_area, ver) ==
    LET has(a) == \E i \in 1..Len(actions) : actions[i] = a
    IN     (IF has("reference") THEN <<"reference">> ELSE <<>>)
        \o (IF has("import") THEN <<"import">> ELSE <<>>)
        \o (IF has("texture_node") THEN <<"texture_node">> ELSE <<>>)
        \o (IF has("udim_texture_node") /\ get_maya_version(ver) >= UDIM_MIN_VERSION
            THEN <<"udim_texture_node">> ELSE <<>>)
        \o (IF has("image_plane") THEN <<"image_plane">> ELSE <<>>)

(***************************************************************************)
(* The publishes the loader is pointed at.  A publish is its Shotgun data  *)
(* (entity name, publish name, path) and what the hosts answer for its     *)
(* file: whether it is on disk, the nodes a reference of it brings in      *)
(* (with the abc_start_frame attribute, <<>> when absent, and whether the  *)
(* node has an offset attribute), the sample time in seconds of the first  *)
(* sample of each IXform child of the archive's top, the time of sample 1  *)
(* of time sampling 0, and whether glob finds frames for a frame pattern.  *)
(***************************************************************************)
AbcNodes(start_attr) ==
    << [abc_start_frame |-> start_attr, hasOffset |-> FALSE, offset |-> 0],
       [abc_start_frame |-> <<>>, hasOffset |-> TRUE, offset |-> 0] >>

Publishes ==
    << [entity |-> S_test_cam,
        name |-> S_MMtrackalembic \o S_us \o S_char \o S_v001,
        path |-> S_dir \o S_MMtrackalembic \o S_us \o S_char \o S_v001 \o S_abc,
        on_disk |-> TRUE, nodes |-> AbcNodes(<<0>>),
        xforms |-> <<0>>, ts0_sample1 |-> 1, frames_on_disk |-> FALSE],
       [entity |-> S_shot010,
        name |-> S_pub1 \o S_us \o N_rock_v2 \o S_v003 \o S_abc,
        path |-> S_dir \o S_pub1 \o S_us \o N_rock_v2 \o S_v003 \o S_abc,
        on_disk |-> TRUE, nodes |-> AbcNodes(<<>>),
        xforms |-> <<0, 1>>, ts0_sample1 |-> 1, frames_on_disk |-> FALSE],
       [entity |-> S_bunny,
        name |-> S_upperbody,
        path |-> S_dir \o S_upperbody \o S_ma,
        on_disk |-> TRUE, nodes |-> <<>>,
        xforms |-> <<>>, ts0_sample1 |-> 0, frames_on_disk |-> FALSE],
       [entity |-> S_shot010,
        name |-> S_fxgeo \o S_us \o S_smoke \o S_v002,
        path |-> S_dir \o S_fxgeo \o S_us \o S_smoke \o S_v002 \o S_frames,
        on_disk |-> FALSE, nodes |-> <<>>,
        xforms |-> <<>>, ts0_sample1 |-> 0, frames_on_disk |-> FALSE],
       [entity |-> S_shot010,
        name |-> S_pub1 \o S_us \o N_rock \o S_v001 \o S_abc,
        path |-> S_dir \o S_pub1 \o S_us \o N_rock \o S_v001 \o S_abc,
        on_disk |-> TRUE, nodes |-> AbcNodes(<<>>),
        xforms |-> <<>>, ts0_sample1 |-> 1, frames_on_disk |-> FALSE] >>

ActionNames ==
    {"reference", "import", "texture_node", "udim_texture_node", "image_plane"}

\* an action name of the configuration that the hook does not implement
OtherActionNames == {"download"}

(***************************************************************************)
(* _create_reference 219-236, _do_import 322-339: the namespace.           *)
(***************************************************************************)
\* The loop over GEO_CONSTANT_ENTITIES from its k-th entry on.  ns.ok is FALSE
\* once re.search('_v\d+', ...) answered None and .group raised.
RECURSIVE NamespaceLoop(_, _)
NamespaceLoop(ns, k) ==
    IF ~ns.ok \/ k > Len(LOADER_GEO_CONSTANT_ENTITIES) THEN ns
    ELSE LET entities == LOADER_GEO_CONSTANT_ENTITIES[k]
             rest == SplitLast(ns.val, entities)
             get_version == GroupVN(rest)
             get_geo_name == SplitFirst(rest, get_version)
         IN  IF ~Contains(ns.val, entities) THEN NamespaceLoop(ns, k + 1)
             ELSE IF SearchVN(rest) = 0
             THEN [ok |-> FALSE, val |-> ns.val]
             ELSE NamespaceLoop([ok |-> TRUE, val |-> entities \o get_geo_name], k + 1)

\* "%s %s" % (entity name, publish name), spaces replaced by underscores
JoinedName(entity_name, publish_name) ==
    Replace(entity_name \o S_space \o publish_name, S_space, S_us)

Namespace(entity_name, publish_name) ==
    NamespaceLoop([ok |-> TRUE, val |-> JoinedName(entity_name, publish_name)], 1)

(***************************************************************************)
(* _create_reference 247-308: the offset of a loaded .abc file.            *)
(***************************************************************************)
\* atrib: a node carries abc_start_frame equal to the playback start frame
HasStartFrame(nodes, first_frame) ==
    \E i \in 1..Len(nodes) :
        /\ nodes[i].abc_start_frame # <<>>
        /\ nodes[i].abc_start_frame[1] = first_frame

\* start_frame as lines 264-287 compute it: <<>> when no IXform child set
\* temp_start_frame, which is then still the type object float
CacheStartFrame(pub) ==
    IF pub.xforms = <<>> THEN <<>>
    ELSE LET temp_start_frame == FPS * pub.xforms[Len(pub.xforms)]
         IN  IF temp_start_frame = 0 THEN <<pub.ts0_sample1>>
             ELSE <<temp_start_frame>>

\* lines 292-296, with the playback and the cache start frame known
ReconciledOffset(first_frame, start_frame) ==
    IF first_frame # start_frame THEN first_frame ELSE start_frame

\* abc_offset; ok is FALSE when float(start_frame) raises TypeError
AbcOffset(pub, nodes, first_frame) ==
    IF HasStartFrame(nodes, first_frame) THEN [ok |-> TRUE, val |-> 0]
    ELSE IF CacheStartFrame(pub) = <<>> THEN [ok |-> FALSE, val |-> 0]
    ELSE [ok |-> TRUE,
          val |-> ReconciledOffset(first_frame, CacheStartFrame(pub)[1])]

\* lines 301-308: setAttr on every node that has an offset attribute
WriteOffset(nodes, abc_offset) ==
    [i \in 1..Len(nodes) |->
        IF nodes[i].hasOffset THEN [nodes[i] EXCEPT !.offset = abc_offset]
        ELSE nodes[i]]

Loaded(kind, p, namespace, nodes, written) ==
    [kind |-> kind, pub |-> p, namespace |-> namespace, nodes |-> nodes,
     written |-> written]

Done(scene) == [scene |-> scene, raised |-> FALSE]
Raised(scene) == [scene |-> scene, raised |-> TRUE]

_create_reference(p, scene, first_frame) ==
    LET pub == Publishes[p]
        ns == Namespace(pub.entity, pub.name)
        off == AbcOffset(pub, pub.nodes, first_frame)
    IN  IF ~pub.on_disk THEN Raised(scene)
        ELSE IF ~ns.ok THEN Raised(scene)
        ELSE IF ~EndsWith(pub.path, S_abc)
        THEN Done(Append(scene, Loaded("reference", p, ns.val, pub.nodes, <<>>)))
        ELSE IF ~off.ok
        THEN Raised(Append(scene, Loaded("reference", p, ns.val, pub.nodes, <<>>)))
        ELSE Done(Append(scene, Loaded("reference", p, ns.val,
                                       WriteOffset(pub.nodes, off.val), <<off.val>>)))

\* cmds.file(..., i=True, returnNewNodes=True) answers the list of the new
\* nodes; file_path.endswith on a list raises AttributeError after the import
_do_import(p, scene, first_frame) ==
    LET pub == Publishes[p]
        ns == Namespace(pub.entity, pub.name)
    IN  IF ~pub.on_disk THEN Raised(scene)
        ELSE IF ~ns.ok THEN Raised(scene)
        ELSE Raised(Append(scene, Loaded("import", p, ns.val, pub.nodes, <<>>)))

_create_texture_node(p, scene) ==
    Done(Append(scene, Loaded("texture_node", p, <<>>, <<>>, <<>>)))

_create_udim_texture_node(p, scene) ==
    Done(Append(scene, Loaded("udim_texture_node", p, <<>>, <<>>, <<>>)))

\* re.search("(%0\dd)", path) is not None
HasFrameSpec(path) ==
    \E i \in 1..Len(path) :
        /\ OccursAt(path, S_pct0, i)
        /\ i + 3 <= Len(path)
        /\ path[i + 2] \in Digits
        /\ path[i + 3] = "d"

_create_image_plane(p, scene) ==
    IF HasFrameSpec(Publishes[p].path) /\ ~Publishes[p].frames_on_disk
    THEN Done(scene)
    ELSE Done(Append(scene, Loaded("image_plane", p, <<>>, <<>>, <<>>)))

execute_action(name, p, scene, first_frame) ==
    CASE name = "reference" -> _create_reference(p, scene, first_frame)
      [] name = "import" -> _do_import(p, scene, first_frame)
      [] name = "texture_node" -> _create_texture_node(p, scene)
      [] name = "udim_texture_node" -> _create_udim_texture_node(p, scene)
      [] name = "image_plane" -> _create_image_plane(p, scene)
      [] OTHER -> Done(scene)

\* the loop with every entry's execute_action call wrapped in try/except
RECURSIVE RunActions_continue(_, _, _, _, _)
RunActions_continue(actions, k, scene, calls, first_frame) ==
    IF k > Len(actions) THEN [scene |-> scene, calls |-> calls, raised |-> FALSE]
    ELSE LET r == execute_action(actions[k].name, actions[k].pub, scene, first_frame)
         IN  RunActions_continue(actions, k + 1, r.scene, Append(calls, k), first_frame)

\* the loop of execute_multiple_actions from entry k on; calls lists the
\* entries execute_action was called for
RECURSIVE RunActions(_, _, _, _, _)
RunActions(actions, k, scene, calls, first_frame) ==
    IF k > Len(actions) THEN [scene |-> scene, calls |-> calls, raised |-> FALSE]
    ELSE LET r == execute_action(actions[k].name, actions[k].pub, scene, first_frame)
         IN  IF r.raised
             THEN [scene |-> r.scene, calls |-> Append(calls, k), raised |-> TRUE]
             ELSE RunActions(actions, k + 1, r.scene, Append(calls, k), first_frame)

execute_multiple_actions(actions, scene, first_frame) ==
    RunActions(actions, 1, scene, <<>>, first_frame)

(***************************************************************************)
(* The loader app around the hook.                                         *)
(***************************************************************************)
\* action names listed in one generate_actions call
MaxListed == 2
\* entries of one execute_multiple_actions call
MaxActions == 3

SeqsUpTo(S, n) == UNION {[1..k -> S] : k \in 0..n}

ActionLists == SeqsUpTo(ActionNames \cup OtherActionNames, MaxListed)

\* the action names the loader's configuration offers for a publish: scene
\* and cache files are referenced or imported, an image goes to the others
Offered(p) ==
    IF EndsWith(Publishes[p].path, S_abc) \/ EndsWith(Publishes[p].path, S_ma)
    THEN {"reference", "import"}
    ELSE (ActionNames \cup OtherActionNames) \ {"import"}

Entries ==
    {e \in [name : ActionNames \cup OtherActionNames, pub : 1..Len(Publishes)] :
        e.name \in Offered(e.pub)}

\* the loader applies its actions to a selection of different publishes
ActionSeqs ==
    {a \in SeqsUpTo(Entries, MaxActions) :
        /\ a # <<>>
        /\ \A i, j \in 1..Len(a) : i # j => a[i].pub # a[j].pub}

NoGenerated == [called |-> FALSE, actions |-> <<>>, ui_area |-> "", instances |-> <<>>]
NoExec == [called |-> FALSE, actions |-> <<>>, calls |-> <<>>, raised |-> FALSE]

GenerateActions ==
    /\ \E actions \in ActionLists, ui_area \in {"main", "details", "history"} :
         generated' = [called |-> TRUE, actions |-> actions, ui_area |-> ui_area,
                       instances |-> generate_actions(actions, ui_area, maya_ver)]
    /\ UNCHANGED <<maya_ver, loaderScene, execLast>>
    /\ UNCHANGED <<pubVars, nsVars, svVars>>

\* The hook is run once on a new scene.
ExecuteMultipleActions ==
    /\ ~execLast.called
    /\ loaderScene = <<>>
    /\ \E actions \in ActionSeqs :
         LET r == execute_multiple_actions(actions, loaderScene, playbackMin)
         IN  /\ loaderScene' = r.scene
             /\ execLast' = [called |-> TRUE, actions |-> actions,
                             calls |-> r.calls, raised |-> r.raised]
    /\ UNCHANGED <<maya_ver, generated>>
    /\ UNCHANGED <<pubVars, nsVars, svVars>>

\* File > New Scene
NewScene ==
    /\ execLast.called
    /\ loaderScene' = <<>>
    /\ execLast' = NoExec
    /\ UNCHANGED <<maya_ver, generated>>
    /\ UNCHANGED <<pubVars, nsVars, svVars>>

GenerateNext == GenerateActions

LoaderNext == ExecuteMultipleActions \/ NewScene

(***************************************************************************)
(* The namespace manager (namespace_manager.py).                           *)
(***************************************************************************)
S_rig == <<"r", "i", "g">>

\* nodes selected at once
MaxSelected == 2

\* the radio buttons of qgrpbox_select_naming and of qgrpbox_apply
NamingOptions == {S_MMtrackalembic, S_fxgeo}
ApplyOptions == {"Only Selected Nodes", "All nodes"}

\* what the artist may type into qlineedit_input_text
UserTexts == {<<>>, S_char}

\* cmds.file(query=True, l=True): the scene file and the files it references
SceneFiles == <<S_shot010 \o S_ma, S_rock \o S_abc, S_rig \o S_ma, S_char \o S_abc>>

\* the namespaces the files were brought in with; the scene file has none
LoadedNamespaces == <<<<>>, S_rock, S_rig, S_char>>

\* the nodes of the scene and the file each is referenced from: its index
\* in SceneFiles, 0 for a node that is not referenced
SceneNodes == <<2, 4, 0>>

Selections ==
    {sel \in SeqsUpTo(1..Len(SceneNodes), MaxSelected) :
        \A i, j \in 1..Len(sel) : i # j => sel[i] # sel[j]}

NoNsLast ==
    [op |-> "none", valid |-> FALSE, warning |-> "", raised |-> FALSE,
     nsBefore |-> LoadedNamespaces]

\* toggled reaches the slot from the button that went off and from the one
\* that went on; only the checked sender is taken
get_naming_convention ==
    /\ windowOpen
    /\ \E r \in NamingOptions, isChecked \in BOOLEAN :
         naming_convention' = IF isChecked THEN r ELSE naming_convention
    /\ nsLast' = NoNsLast
    /\ UNCHANGED <<apply_option, namespace_user_text, fileNamespace,
                   nsSelection, windowOpen>>
    /\ UNCHANGED <<pubVars, loadVars, svVars>>

get_apply_options ==
    /\ windowOpen
    /\ \E r \in ApplyOptions, isChecked \in BOOLEAN :
         apply_option' = IF isChecked THEN r ELSE apply_option
    /\ nsLast' = NoNsLast
    /\ UNCHANGED <<naming_convention, namespace_user_text, fileNamespace,
                   nsSelection, windowOpen>>
    /\ UNCHANGED <<pubVars, loadVars, svVars>>

EditText ==
    /\ windowOpen
    /\ \E text \in UserTexts :
         /\ text # namespace_user_text
         /\ namespace_user_text' = text
    /\ nsLast' = NoNsLast
    /\ UNCHANGED <<naming_convention, apply_option, fileNamespace,
                   nsSelection, windowOpen>>
    /\ UNCHANGED <<pubVars, loadVars, svVars>>

SelectNodes ==
    /\ \E sel \in Selections :
         /\ sel # nsSelection
         /\ nsSelection' = sel
    /\ nsLast' = NoNsLast
    /\ UNCHANGED <<naming_convention, apply_option, namespace_user_text,
                   fileNamespace, windowOpen>>
    /\ UNCHANGED <<pubVars, loadVars, svVars>>

validate_lax(naming, apply, text) ==
    IF naming = <<>> \/ apply = ""
    THEN [ok |-> FALSE, warning |-> "Please Select Given Options"]
    ELSE [ok |-> TRUE, warning |-> ""]

validate(naming, apply, text) ==
    IF naming = <<>> \/ apply = ""
    THEN [ok |-> FALSE, warning |-> "Please Select Given Options"]
    ELSE IF text = <<>>
    THEN [ok |-> FALSE, warning |-> "Please Enter Namespace"]
    ELSE [ok |-> TRUE, warning |-> ""]

\* lines 117-119 from the k-th selected node on; referenceQuery raises for a
\* node that is not referenced
RECURSIVE ApplySelected(_, _, _, _)
ApplySelected(get_nodes, k, ns, name) ==
    IF k > Len(get_nodes) THEN [ns |-> ns, raised |-> FALSE]
    ELSE LET file_reference == SceneNodes[get_nodes[k]]
         IN  IF file_reference = 0 THEN [ns |-> ns, raised |-> TRUE]
             ELSE ApplySelected(get_nodes, k + 1,
                                [ns EXCEPT ![file_reference] = name], name)

\* lines 125-128
ApplyAll(ns, name) ==
    [f \in 1..Len(SceneFiles) |->
        IF ~EndsWith(SceneFiles[f], S_ma) THEN name ELSE ns[f]]

process_naming_convention ==
    /\ windowOpen
    /\ LET v == validate(naming_convention, apply_option, namespace_user_text)
           name == naming_convention \o S_us \o namespace_user_text
           sel == ApplySelected(nsSelection, 1, fileNamespace, name)
           done(ns, raised, closed) ==
               /\ fileNamespace' = ns
               /\ windowOpen' = ~closed
               /\ nsLast' = [op |-> "process", valid |-> v.ok, warning |-> v.warning,
                             raised |-> raised, nsBefore |-> fileNamespace]
       IN  IF ~v.ok THEN done(fileNamespace, FALSE, FALSE)
           ELSE IF apply_option = "Only Selected Nodes"
           THEN done(sel.ns, sel.raised, ~sel.raised)
           ELSE IF apply_option = "All nodes"
           THEN done(ApplyAll(fileNamespace, name), FALSE, TRUE)
           ELSE done(fileNamespace, FALSE, FALSE)
    /\ UNCHANGED <<naming_convention, apply_option, namespace_user_text, nsSelection>>
    /\ UNCHANGED <<pubVars, loadVars, svVars>>

\* lines 132-133: the script is run again and builds a new manager
ShowWindow ==
    /\ ~windowOpen
    /\ windowOpen' = TRUE
    /\ naming_convention' = <<>>
    /\ apply_option' = ""
    /\ namespace_user_text' = <<>>
    /\ nsLast' = NoNsLast
    /\ UNCHANGED <<fileNamespace, nsSelection>>
    /\ UNCHANGED <<pubVars, loadVars, svVars>>

NsNext ==
    \/ get_naming_convention
    \/ get_apply_options
    \/ EditText
    \/ SelectNodes
    \/ process_naming_convention
    \/ ShowWindow

(***************************************************************************)
(* set_version as a function of the publish name and of the records of the *)
(* tracking database (publish_camera.py 244-293, publish_mesh.py 250-299). *)
(***************************************************************************)
\* records one call of set_version may find in the database
MaxSvRecords == 2

S_camera1 == S_cam \o <<"e", "r", "a", "1">>

\* publish names: well formed; without a token; a token without a version;
\* a token and two digits; the version right after the token; a second token
\* after the version of the first; a version and no token; the empty name
SvPublishNames ==
    { apply_fields([name |-> N_rock, version |-> 1]),
      apply_fields([name |-> S_camera1, version |-> 1]),
      S_pub1 \o S_us \o N_rock \o S_abc,
      S_pub1 \o S_us \o N_rock \o S_uv \o <<"0", "1">> \o S_abc,
      S_pub1 \o S_us \o S_MMtrackalembic \o S_v001,
      S_pub1 \o S_us \o N_trailing \o S_rock \o S_v001 \o S_us \o N_rock,
      S_rock \o S_v001,
      <<>> }

\* PublishedFile records: a publish of the rock, one of a camera without a
\* token, one whose code carries no version, one of another task
SvRecords ==
    { [code |-> apply_fields([name |-> N_rock, version |-> 3]),
       version_number |-> 3, task |-> TASK],
      [code |-> apply_fields([name |-> S_camera1, version |-> 7]),
       version_number |-> 7, task |-> TASK],
      [code |-> N_rock, version_number |-> 1, task |-> TASK],
      [code |-> apply_fields([name |-> N_rock, version |-> 5]),
       version_number |-> 5, task |-> OTHER_TASK] }

NoCall ==
    [called |-> FALSE, publish_name |-> <<>>, records |-> <<>>,
     raised |-> FALSE, result |-> 0]

\* one call of set_version: it raises when an exception leaves the loop over
\* the records, and returns the version otherwise
SetVersion ==
    /\ \E publish_name \in SvPublishNames,
          records \in SeqsUpTo(SvRecords, MaxSvRecords) :
         LET raised == LoopRaises(extracted_name(publish_name), find(records, TASK))
         IN  svCall' = [called |-> TRUE, publish_name |-> publish_name,
                        records |-> records, raised |-> raised,
                        result |-> IF raised THEN 0
                                   ELSE set_version(publish_name, TASK, records)]
    /\ UNCHANGED <<pubVars, loadVars, nsVars>>

SetVersionNext == SetVersion

(***************************************************************************)
(* The specifications: one per tool, the other tools at rest.              *)
(***************************************************************************)
\* the publisher has collected a node; the loader and the manager are at rest
Init ==
    /\ node \in 1..Len(Catalogue)
    /\ nodeName = Catalogue[node].name
    /\ abc_start_frame = <<>>
    /\ selection = {}
    /\ sessionSaved \in BOOLEAN
    /\ workVersion = 1
    /\ playbackMin \in {0, 24}
    /\ sgRecords \in
         { <<>>,
           <<[code |-> apply_fields([name |-> SplitFirst(Catalogue[node].name, S_colon),
                                     version |-> 2]),
              version_number |-> 2, task |-> OTHER_TASK]>> }
    /\ item = NewItem(Catalogue[node].name, Catalogue[node].kind)
    /\ stage = "collected"
    /\ exportLog = <<>>
    /\ last = NoLast
    /\ maya_ver = S_2018
    /\ generated = NoGenerated
    /\ loaderScene = <<>>
    /\ execLast = NoExec
    /\ naming_convention = <<>>
    /\ apply_option = ""
    /\ namespace_user_text = <<>>
    /\ fileNamespace = LoadedNamespaces
    /\ nsSelection = <<>>
    /\ windowOpen = TRUE
    /\ nsLast = NoNsLast
    /\ svCall = NoCall

Spec == Init /\ [][PubNext]_vars

\* a Maya of some version; nothing collected, loaded or renamed
GenerateInit ==
    /\ node = 1
    /\ nodeName = Catalogue[1].name
    /\ abc_start_frame = <<>>
    /\ selection = {}
    /\ sessionSaved = FALSE
    /\ workVersion = 1
    /\ sgRecords = <<>>
    /\ item = NewItem(Catalogue[1].name, Catalogue[1].kind)
    /\ stage = "collected"
    /\ exportLog = <<>>
    /\ last = NoLast
    /\ playbackMin = 0
    /\ maya_ver \in {S_2014, S_Maya \o S_2018, S_2015_5, S_Preview}
    /\ generated = NoGenerated
    /\ loaderScene = <<>>
    /\ execLast = NoExec
    /\ naming_convention = <<>>
    /\ apply_option = ""
    /\ namespace_user_text = <<>>
    /\ fileNamespace = LoadedNamespaces
    /\ nsSelection = <<>>
    /\ windowOpen = TRUE
    /\ nsLast = NoNsLast
    /\ svCall = NoCall

GenerateSpec == GenerateInit /\ [][GenerateNext]_vars

\* a new scene with some playback start frame
LoaderInit ==
    /\ node = 1
    /\ nodeName = Catalogue[1].name
    /\ abc_start_frame = <<>>
    /\ selection = {}
    /\ sessionSaved = FALSE
    /\ workVersion = 1
    /\ sgRecords = <<>>
    /\ item = NewItem(Catalogue[1].name, Catalogue[1].kind)
    /\ stage = "collected"
    /\ exportLog = <<>>
    /\ last = NoLast
    /\ playbackMin \in {0, 1, 24}
    /\ maya_ver = S_2018
    /\ generated = NoGenerated
    /\ loaderScene = <<>>
    /\ execLast = NoExec
    /\ naming_convention = <<>>
    /\ apply_option = ""
    /\ namespace_user_text = <<>>
    /\ fileNamespace = LoadedNamespaces
    /\ nsSelection = <<>>
    /\ windowOpen = TRUE
    /\ nsLast = NoNsLast
    /\ svCall = NoCall

LoaderSpec == LoaderInit /\ [][LoaderNext]_vars

\* the manager's window is shown on a scene with references
NsInit ==
    /\ node = 1
    /\ nodeName = Catalogue[1].name
    /\ abc_start_frame = <<>>
    /\ selection = {}
    /\ sessionSaved = FALSE
    /\ workVersion = 1
    /\ sgRecords = <<>>
    /\ item = NewItem(Catalogue[1].name, Catalogue[1].kind)
    /\ stage = "collected"
    /\ exportLog = <<>>
    /\ last = NoLast
    /\ playbackMin = 0
    /\ maya_ver = S_2018
    /\ generated = NoGenerated
    /\ loaderScene = <<>>
    /\ execLast = NoExec
    /\ naming_convention = <<>>
    /\ apply_option = ""
    /\ namespace_user_text = <<>>
    /\ fileNamespace = LoadedNamespaces
    /\ nsSelection = <<>>
    /\ windowOpen = TRUE
    /\ nsLast = NoNsLast
    /\ svCall = NoCall

NsSpec == NsInit /\ [][NsNext]_vars

\* set_version has not been called; the tools are at rest
SetVersionInit ==
    /\ node = 1
    /\ nodeName = Catalogue[1].name
    /\ abc_start_frame = <<>>
    /\ selection = {}
    /\ sessionSaved = FALSE
    /\ workVersion = 1
    /\ sgRecords = <<>>
    /\ item = NewItem(Catalogue[1].name, Catalogue[1].kind)
    /\ stage = "collected"
    /\ exportLog = <<>>
    /\ last = NoLast
    /\ playbackMin = 0
    /\ maya_ver = S_2018
    /\ generated = NoGenerated
    /\ loaderScene = <<>>
    /\ execLast = NoExec
    /\ naming_convention = <<>>
    /\ apply_option = ""
    /\ namespace_user_text = <<>>
    /\ fileNamespace = LoadedNamespaces
    /\ nsSelection = <<>>
    /\ windowOpen = TRUE
    /\ nsLast = NoNsLast
    /\ svCall = NoCall

SetVersionSpec == SetVersionInit /\ [][SetVersionNext]_vars

(***************************************************************************)
(* Claims about the publish plugins, checked under Spec.                   *)
(***************************************************************************)
\* the publish name holds an entity token, then a name, then _v and 3 digits
HasTokenNameVersion(publish_name) ==
    \E k \in 1..Len(GEO_CONSTANT_ENTITIES) :
        /\ Contains(publish_name, GEO_CONSTANT_ENTITIES[k])
        /\ SearchV3(SplitLast(publish_name, GEO_CONSTANT_ENTITIES[k])) > 1

\* the records of the task whose code matches the extracted string
MatchingRecords(publish_name, task, records) ==
    {i \in 1..Len(records) :
        /\ records[i].task = task
        /\ CodeMatches(extracted_name(publish_name), records[i].code)}

ValidateSucceeded == last.op = "validate" /\ last.result = "true"

\* C1: for a publish name with an entity token, a name and a 3-digit version
\* suffix, set_version answers 1 + the highest version number among the task's
\* records whose code matches the extracted string, and 1 when there is none.
C1_NextVersionOfMatching ==
    (ValidateSucceeded /\ HasTokenNameVersion(last.svArg)) =>
        LET M == MatchingRecords(last.svArg, item.task, sgRecords)
        IN  item.publish_version =
                IF M = {} THEN 1
                ELSE 1 + SetMax({sgRecords[i].version_number : i \in M})

\* the publish name the template gives the item's node at a version
PublishNameAt(it, version) ==
    LET name == SplitFirst(it.object, S_colon)
        display == StripNonAlnum(name)
    IN  Replace(apply_fields([name |-> display, version |-> version]), display, name)

\* the records registered for the item's node in the item's task
OwnRecords(it, records) ==
    {i \in 1..Len(records) :
        /\ records[i].task = it.task
        /\ records[i].code = PublishNameAt(it, records[i].version_number)}

\* C2: the version validate computes is above the version of every record
\* already registered for the same name in the task, and it is 1 when there
\* is no such record.
C2_VersionAboveRegistered ==
    (ValidateSucceeded /\ AnyOf(namings, LAMBDA p : StartsWith(item.object, p))) =>
        /\ \A i \in OwnRecords(item, sgRecords) :
               item.publish_version > sgRecords[i].version_number
        /\ OwnRecords(item, sgRecords) = {} => item.publish_version = 1

\* C3: validate does not succeed for an item with a naming violation, and no
\* export runs for such an item.
C3_ViolationBlocksPublish ==
    /\ (last.op = "validate" /\ last.errors # {}) => last.result # "true"
    /\ (last.op = "publish" /\ last.exportRan) =>
           ValidationErrors(Catalogue[node], item.object) = {}

\* C4: a publish call registers the file, and sets publish_type, only after
\* an AbcExport of the node ran without error in that call.
C4_RegisterOnlyAfterExport ==
    (last.op = "publish" /\ last.registered) =>
        (last.exportRan /\ last.exportOk)

\* C5: with no saved session path validate raises 'The Maya session has not
\* been saved.' and leaves the item's properties and the selection as they were.
C5_UnsavedSessionRaises ==
    (last.op = "validate" /\ ~sessionSaved) =>
        /\ last.result = "raise"
        /\ last.msg = "The Maya session has not been saved."
        /\ Properties(item) = last.propsBefore
        /\ selection = last.selBefore

\* validate ran on an unsaved session while a node was selected
C5_Witness ==
    /\ last.op = "validate"
    /\ ~sessionSaved
    /\ last.result = "raise"
    /\ selection # {}

\* C11: after a successful validate the item's publish_version is the version
\* field the work template reads from the session path.
C11_PublishVersionIsWorkVersion ==
    ValidateSucceeded =>
        item.publish_version =
            get_fields(session_path(sessionSaved, workVersion)).version

\* C12: whenever the camera plugin's publish returns, cmds.ls(selection=True)
\* answers what it answered when publish was entered.
C12_SelectionRestored ==
    (last.op = "publish" /\ item.kind = "camera" /\ last.result = "return") =>
        selection = last.selBefore

\* C13: when the AbcExport command fails inside publish, publish raises.
C13_FailedExportRaises ==
    (last.op = "publish" /\ last.exportRan /\ ~last.exportOk) =>
        last.result = "raise"

C16_NameRestored ==
    (last.op = "publish" /\ ~Catalogue[node].referenced) =>
        nodeName = last.nameBefore

\* the naming-convention error of set_version: no entity token is in the
\* publish name, or no occurrence of a token is followed by _v and three digits
HasToken(publish_name) ==
    \E k \in 1..Len(GEO_CONSTANT_ENTITIES) :
        Contains(publish_name, GEO_CONSTANT_ENTITIES[k])

NamingError(publish_name) ==
    \A k \in 1..Len(GEO_CONSTANT_ENTITIES) :
        LET token == GEO_CONSTANT_ENTITIES[k]
        IN  Contains(publish_name, token) =>
                SearchV3(From(publish_name,
                              Find(publish_name, token) + Len(token))) = 0

\* C15: on a naming-convention error set_version returns 1 whatever records
\* the task has, and it does not raise.
C15_NamingErrorReturnsOne ==
    (svCall.called /\ NamingError(svCall.publish_name)) =>
        (~svCall.raised /\ svCall.result = 1)

\* a name without a token, and a name with a token and no version, each
\* against a task that has a versioned publish
C15_Witness ==
    /\ svCall.called
    /\ NamingError(svCall.publish_name)
    /\ ~HasToken(svCall.publish_name)
    /\ \E i \in 1..Len(svCall.records) :
          /\ svCall.records[i].task = TASK
          /\ SearchVN(svCall.records[i].code) # 0
    /\ svCall.result = 1

(***************************************************************************)
(* Claims about the loader hook, checked under GenerateSpec and LoaderSpec.*)
(***************************************************************************)
\* C6: generate_actions returns an action instance for every action name it
\* was given that the hook implements, whatever the list and the ui_area.
C6_InstancePerActionName ==
    generated.called =>
        \A i \in 1..Len(generated.actions) :
            generated.actions[i] \in ActionNames =>
                \E j \in 1..Len(generated.instances) :
                    generated.instances[j] = generated.actions[i]

\* the scene after the first k entries were applied in order to an empty scene
RECURSIVE SceneAfter(_, _, _)
SceneAfter(actions, k, first_frame) ==
    IF k = 0 THEN <<>>
    ELSE execute_action(actions[k].name, actions[k].pub,
                        SceneAfter(actions, k - 1, first_frame), first_frame).scene

\* execute_action raises for entry k, applied after the entries before it
RaisesAt(actions, k, first_frame) ==
    execute_action(actions[k].name, actions[k].pub,
                   SceneAfter(actions, k - 1, first_frame), first_frame).raised

\* C7: execute_multiple_actions calls execute_action once per entry in list
\* order; when the call for entry i raises, the exception reaches the caller,
\* no later entry is executed and what the entries up to i did to the scene
\* remains.
C7_InOrderStopAtFirstRaise ==
    execLast.called =>
        LET actions == execLast.actions
            n == Len(execLast.calls)
        IN  /\ n \in 1..Len(actions)
            /\ \A i \in 1..n : execLast.calls[i] = i
            /\ \A i \in 1..(n - 1) : ~RaisesAt(actions, i, playbackMin)
            /\ execLast.raised = RaisesAt(actions, n, playbackMin)
            /\ ~execLast.raised => n = Len(actions)
            /\ loaderScene = SceneAfter(actions, n, playbackMin)

\* the second of three entries raised after the first one loaded its publish
C7_Witness ==
    /\ execLast.called
    /\ execLast.raised
    /\ Len(execLast.actions) = 3
    /\ execLast.calls = <<1, 2>>
    /\ loaderScene # <<>>
    /\ loaderScene[1].pub = execLast.actions[1].pub

\* where the version suffix starts: the last '_v' followed by a digit, or 0
VersionSuffixAt(s) ==
    SetMax({0} \cup {i \in 1..Len(s) :
                        /\ OccursAt(s, S_uv, i)
                        /\ i + 2 <= Len(s)
                        /\ s[i + 2] \in Digits})

\* the token followed by the text between the token and the version suffix
\* when the string holds both, the string itself otherwise
TokenAndName(s) ==
    IF \E k \in 1..Len(LOADER_GEO_CONSTANT_ENTITIES) :
           /\ Contains(s, LOADER_GEO_CONSTANT_ENTITIES[k])
           /\ VersionSuffixAt(s) >=
                  Find(s, LOADER_GEO_CONSTANT_ENTITIES[k])
                  + Len(LOADER_GEO_CONSTANT_ENTITIES[k])
    THEN LET k == CHOOSE k \in 1..Len(LOADER_GEO_CONSTANT_ENTITIES) :
                      /\ Contains(s, LOADER_GEO_CONSTANT_ENTITIES[k])
                      /\ VersionSuffixAt(s) >=
                             Find(s, LOADER_GEO_CONSTANT_ENTITIES[k])
                             + Len(LOADER_GEO_CONSTANT_ENTITIES[k])
             token == LOADER_GEO_CONSTANT_ENTITIES[k]
         IN  token \o SubSeq(s, Find(s, token) + Len(token), VersionSuffixAt(s) - 1)
    ELSE s

\* C8: a publish brought in by _create_reference or _do_import gets the
\* namespace '<entity name>_<publish name>', and the entity token followed by
\* the text between the token and the version suffix when the name holds both.
C8_NamespaceTokenAndName ==
    \A i \in 1..Len(loaderScene) :
        loaderScene[i].kind \in {"reference", "import"} =>
            loaderScene[i].namespace =
                TokenAndName(JoinedName(Publishes[loaderScene[i].pub].entity,
                                        Publishes[loaderScene[i].pub].name))

\* C9: for a referenced .abc file none of whose nodes carries an
\* abc_start_frame equal to the playback start frame, the nodes' offsets stay as they were
\* when the playback start frame is the cache's start frame, and become the
\* playback start frame otherwise.
C9_OffsetReconciled ==
    \A i \in 1..Len(loaderScene) :
        LET e == loaderScene[i]
            pub == Publishes[e.pub]
        IN  (/\ e.kind = "reference"
             /\ EndsWith(pub.path, S_abc)
             /\ ~HasStartFrame(pub.nodes, playbackMin)
             /\ CacheStartFrame(pub) # <<>>) =>
                IF playbackMin = CacheStartFrame(pub)[1]
                THEN e.nodes = pub.nodes
                ELSE \A j \in 1..Len(e.nodes) :
                         e.nodes[j].hasOffset => e.nodes[j].offset = playbackMin

\* C17: when an .abc file has been loaded (referenced or imported) and one of
\* its nodes carries an abc_start_frame equal to the playback start frame, the
\* offset 0 has been written; an offset that has been written is 0 or the
\* playback start frame, and every loaded node with an offset attribute has it.
C17_OffsetWritten ==
    \A i \in 1..Len(loaderScene) :
        LET e == loaderScene[i]
            pub == Publishes[e.pub]
        IN  (e.kind \in {"reference", "import"} /\ EndsWith(pub.path, S_abc)) =>
                /\ HasStartFrame(pub.nodes, playbackMin) => e.written = <<0>>
                /\ e.written # <<>> =>
                       /\ e.written[1] \in {0, playbackMin}
                       /\ \A j \in 1..Len(e.nodes) :
                              e.nodes[j].hasOffset =>
                                  e.nodes[j].offset = e.written[1]

(***************************************************************************)
(* Claims about the namespace manager, checked under NsSpec.               *)
(***************************************************************************)
\* C10: process_naming_convention changes no namespace and leaves the window
\* open unless a naming option and an apply option are selected and the text
\* field is not empty; in each of these cases it shows a warning.
C10_NothingUnlessValid ==
    (/\ nsLast.op = "process"
     /\ (naming_convention = <<>> \/ apply_option = "" \/ namespace_user_text = <<>>)) =>
        /\ fileNamespace = nsLast.nsBefore
        /\ windowOpen
        /\ nsLast.warning \in {"Please Select Given Options", "Please Enter Namespace"}

\* both options are selected, the text field is empty: the manager warned,
\* in a scene an earlier run has renamed a namespace of
C10_Witness ==
    /\ nsLast.op = "process"
    /\ naming_convention # <<>>
    /\ apply_option # ""
    /\ namespace_user_text = <<>>
    /\ nsLast.warning = "Please Enter Namespace"
    /\ fileNamespace # LoadedNamespaces

\* C18: after process_naming_convention with valid input the namespace
\* <naming convention>_<text> is on the reference file of every selected node
\* and on no other file ('Only Selected Nodes'), or on every listed file that
\* does not end with .ma and on no .ma file ('All nodes'), and the window is
\* closed.
C18_NamespaceApplied ==
    (nsLast.op = "process" /\ nsLast.valid) =>
        LET name == naming_convention \o S_us \o namespace_user_text
            selected(f) ==
                \E k \in 1..Len(nsSelection) : SceneNodes[nsSelection[k]] = f
        IN  /\ apply_option = "Only Selected Nodes" =>
                   \A f \in 1..Len(SceneFiles) :
                       fileNamespace[f] =
                           IF selected(f) THEN name ELSE nsLast.nsBefore[f]
            /\ apply_option = "All nodes" =>
                   \A f \in 1..Len(SceneFiles) :
                       fileNamespace[f] =
                           IF ~EndsWith(SceneFiles[f], S_ma) THEN name
                           ELSE nsLast.nsBefore[f]
            /\ ~windowOpen

====
